---- MODULE Spec2Model ----
(***************************************************************************)
(* Overlay composition (native/src/overlay/nested.rs) and the dropdown     *)
(* menu list (native/src/overlay/menu.rs) as state machines.               *)
(*                                                                         *)
(* SpecNested : the Nested overlay composer walking a chain of surfaces.   *)
(* SpecMenu   : the menu State / List event handling.                      *)
(* SpecGeometry : placement of the menu and the rows List::draw renders.   *)
(* SpecBorrow : the exclusive access to the surface held in the RefCell.   *)
(***************************************************************************)
EXTENDS Integers, Sequences, FiniteSets, TLC

VARIABLES
    chainLen,        \* number of surfaces currently materialised in the chain
    layout,          \* the layout tree handed to draw / on_event
    pass,            \* record of the last pass of the composer
    status,          \* menu::State.status
    hovered_option,  \* the shared hovered-option slot, <<>> = None, <<i>> = Some(i)
    options,         \* the option slice of the Menu
    bounds,          \* layout.bounds() of the List
    published,       \* messages in the Shell
    hover_src,       \* which event last wrote the hovered-option slot
    last,            \* record of the last List::on_event call
    geo,             \* record of the last Overlay::layout / List::draw
    cell,            \* borrow state of the RefCell in Inner
    frames,          \* passes of the composer in progress, outermost first
    outcome          \* how the last call into the composer ended

nestedVars == <<chainLen, layout, pass>>
menuVars ==
    <<status, hovered_option, options, bounds, published, hover_src, last>>
geoVars == <<geo>>
cellVars == <<cell, frames, outcome>>
vars == <<chainLen, layout, pass, status, hovered_option, options, bounds,
          published, hover_src, last, geo, cell, frames, outcome>>

----------------------------------------------------------------------------
(* Geometry                                                                *)

Point(x, y) == [x |-> x, y |-> y]

Rect(x, y, w, h) == [x |-> x, y |-> y, width |-> w, height |-> h]

\* Rectangle::contains: half-open on the right and bottom edges.
Contains(r, p) ==
    /\ r.x <= p.x
    /\ p.x < r.x + r.width
    /\ r.y <= p.y
    /\ p.y < r.y + r.height

\* The off-screen cursor, Point::new(-1.0, -1.0).
SENTINEL == Point(-1, -1)

Captured == "Captured"
Ignored == "Ignored"

----------------------------------------------------------------------------
(* Nested overlay composer                                                 *)

\* Deepest chain of surfaces explored.
MaxDepth == 3

\* Rectangles a surface may produce for its own node.
NodeRects == { Rect(0, 0, 2, 2), Rect(2, 0, 2, 2), Rect(1, 1, 2, 1) }

\* Cursor positions handed to a pass.
Cursors == { Point(0, 1), Point(1, 1), Point(2, 1), Point(3, 0), Point(5, 5) }

\* Events handed to on_event (opaque to the composer).
Events == { "ButtonPressed", "CursorMoved" }

\* layout::Node::new / a node without children.
Leaf(r) == [bounds |-> r, children |-> <<>>]

\* layout::Node::with_children(size, children): placed at the origin.
WithChildren(size, children) ==
    [bounds |-> Rect(0, 0, size.width, size.height), children |-> children]

\* Mutant: no surface ever exposes a nested surface.
HasOverlay_Never(k, len) == FALSE

\* element.overlay(layout, renderer): level k exposes level k + 1 while the
\* chain is that long.
HasOverlay(k, len) == k < len

\* Nested::layout's recurse: nodes[k] is the node element k lays out.
RECURSIVE LayoutRecurse(_, _, _)
LayoutRecurse(k, len, nodes) ==
    LET node == Leaf(nodes[k])
    IN  IF HasOverlay(k, len)
        THEN WithChildren(node.bounds,
                          <<node, LayoutRecurse(k + 1, len, nodes)>>)
        ELSE WithChildren(node.bounds, <<node>>)

\* One entry of the log of calls the composer makes on the surfaces.
Call(kind, level, event, cursor, lay, st, over) ==
    [kind |-> kind, level |-> level, event |-> event, cursor |-> cursor,
     bounds |-> lay.bounds, status |-> st, over |-> over]

\* Positions handed to Nested::layout.
Positions == { Point(0, 0), Point(1, 0) }

\* let translation = position - Point::ORIGIN;
Translation(position) == [x |-> position.x - 0, y |-> position.y - 0]

\* Mutant: the nested level is anchored at the node just laid out.
NestedPosition_FromNode(position, node) ==
    Point(node.bounds.x, node.bounds.y)

\* The position recurse hands to the nested level.
NestedPosition(position, node) == position

\* The calls Nested::layout's recurse makes, in order: element.layout with
\* the translation (cursor field), then element.overlay with the node just
\* laid out (over field: whether a nested surface came back).
RECURSIVE LayoutCalls(_, _, _, _)
LayoutCalls(k, len, nodes, position) ==
    LET node == Leaf(nodes[k])
    IN  <<Call("layout", k, "none", Translation(position), node, "none",
               FALSE),
          Call("overlay", k, "none", SENTINEL, node, "none",
               HasOverlay(k, len))>>
        \o (IF HasOverlay(k, len)
            THEN LayoutCalls(k + 1, len, nodes,
                             NestedPosition(position, node))
            ELSE <<>>)

\* A layout without children, as a caller may hand in.
EmptyLayout == [bounds |-> Rect(0, 0, 0, 0), children |-> <<>>]

\* Overlay::is_over of a single surface: the cursor is within the bounds of
\* the layout it is given.
ElementIsOver(lay, cursor) == Contains(lay.bounds, cursor)

\* Mutant: the walk never goes past the root surface.
Zip_Never(nested, layouts) == FALSE

\* element.overlay(..).zip(layouts.next()): a nested surface and a layout
\* node for it are both there.
Zip(nested, layouts) == nested /\ Len(layouts) >= 2

\* Mutant: a missing nested surface counts as having captured the event.
NoNestedStatus_Captured == Captured

\* The status when no nested surface (or no layout for it) exists.
NoNestedStatus == Ignored

\* Mutant: the event bubbles outward whatever the inner status.
Bubbles_Always(st) == TRUE

\* matches!(status, event::Status::Ignored): the event bubbles outward.
Bubbles(st) == st = Ignored

\* Nested::on_event's recurse. resp[k] is what surface k's own on_event
\* returns for this event.
RECURSIVE OnEventRecurse(_, _, _, _, _, _)
OnEventRecurse(k, len, lay, event, cursor, resp) ==
    LET layouts == lay.children
    IN  IF Len(layouts) >= 1
        THEN LET l == layouts[1]
                 inner ==
                     IF Zip(HasOverlay(k, len), layouts)
                     THEN OnEventRecurse(k + 1, len, layouts[2], event,
                                         cursor, resp)
                     ELSE [status |-> NoNestedStatus, calls |-> <<>>]
             IN  IF Bubbles(inner.status)
                 THEN [status |-> resp[k],
                       calls |-> Append(inner.calls,
                                        Call("on_event", k, event, cursor,
                                             l, resp[k], FALSE))]
                 ELSE inner
        ELSE [status |-> Ignored, calls |-> <<>>]

\* Mutant: the occlusion test is dropped.
DrawCursor_Real(is_over, cursor) == cursor

\* The cursor element.draw receives inside with_layer.
DrawCursor(is_over, cursor) == IF is_over THEN SENTINEL ELSE cursor

\* Nested::draw's recurse: the is_over queries and draws, in call order.
RECURSIVE DrawRecurse(_, _, _, _)
DrawRecurse(k, len, lay, cursor) ==
    LET layouts == lay.children
    IN  IF Len(layouts) >= 1
        THEN LET l == layouts[1]
                 queried == Zip(HasOverlay(k, len), layouts)
                 is_over == IF queried
                            THEN ElementIsOver(layouts[2], cursor)
                            ELSE FALSE
                 query == IF queried
                          THEN <<Call("is_over", k + 1, "none", cursor,
                                      layouts[2], "none", is_over)>>
                          ELSE <<>>
                 draw == <<Call("draw", k, "none",
                                DrawCursor(is_over, cursor), l, "none",
                                FALSE)>>
                 rest == IF Zip(HasOverlay(k, len), layouts)
                         THEN DrawRecurse(k + 1, len, layouts[2], cursor)
                         ELSE <<>>
             IN  query \o draw \o rest
        ELSE <<>>

\* Mutant: the first match does not end the search.
Found_Never(is_over) == FALSE

\* if is_over { return true; }
Found(is_over) == is_over

\* Nested::is_over's recurse: the surfaces asked, in call order, and the
\* answer.
RECURSIVE IsOverRecurse(_, _, _, _)
IsOverRecurse(k, len, lay, cursor) ==
    LET layouts == lay.children
    IN  IF Len(layouts) >= 1
        THEN LET l == layouts[1]
                 is_over == ElementIsOver(l, cursor)
                 call == <<Call("is_over", k, "none", cursor, l, "none",
                                is_over)>>
             IN  IF Found(is_over)
                 THEN [over |-> TRUE, calls |-> call]
                 ELSE IF Zip(HasOverlay(k, len), layouts)
                      THEN LET inner == IsOverRecurse(k + 1, len,
                                                      layouts[2], cursor)
                           IN  [over |-> inner.over,
                                calls |-> call \o inner.calls]
                      ELSE [over |-> FALSE, calls |-> call]
        ELSE [over |-> FALSE, calls |-> <<>>]

\* mouse::Interaction values a surface may answer; Idle is the default.
Interactions == { "Idle", "Pointer", "Grab" }

\* Mutant: the feedback of a missing nested surface is Pointer.
NoNestedInteraction_Pointer == "Pointer"

\* mouse::Interaction::default() when no nested surface is walked.
NoNestedInteraction == "Idle"

\* Mutant: the outer surface is always consulted.
IsIdle_Always(interaction) == TRUE

\* matches!(interaction, mouse::Interaction::Idle)
IsIdle(interaction) == interaction = "Idle"

\* Nested::mouse_interaction's recurse. inter[k] is what surface k's own
\* mouse_interaction answers.
RECURSIVE MouseRecurse(_, _, _, _, _)
MouseRecurse(k, len, lay, cursor, inter) ==
    LET layouts == lay.children
    IN  IF Len(layouts) >= 1
        THEN LET l == layouts[1]
                 inner ==
                     IF Zip(HasOverlay(k, len), layouts)
                     THEN MouseRecurse(k + 1, len, layouts[2], cursor,
                                       inter)
                     ELSE [status |-> NoNestedInteraction, calls |-> <<>>]
             IN  IF IsIdle(inner.status)
                 THEN [status |-> inter[k],
                       calls |-> Append(inner.calls,
                                        Call("mouse_interaction", k, "none",
                                             cursor, l, inter[k], FALSE))]
                 ELSE inner
        ELSE [status |-> "Idle", calls |-> <<>>]

\* Mutant: the nested surfaces are operated on before their parent.
RECURSIVE OperateRecurse_InnerFirst(_, _, _)
OperateRecurse_InnerFirst(k, len, lay) ==
    LET layouts == lay.children
    IN  IF Len(layouts) >= 1
        THEN (IF Zip(HasOverlay(k, len), layouts)
              THEN OperateRecurse_InnerFirst(k + 1, len, layouts[2])
              ELSE <<>>)
             \o <<Call("operate", k, "none", SENTINEL, layouts[1], "none",
                       FALSE)>>
        ELSE <<>>

\* Nested::operate's recurse: the surfaces operated on, in call order.
RECURSIVE OperateRecurse(_, _, _)
OperateRecurse(k, len, lay) ==
    LET layouts == lay.children
    IN  IF Len(layouts) >= 1
        THEN <<Call("operate", k, "none", SENTINEL, layouts[1], "none",
                    FALSE)>>
             \o (IF Zip(HasOverlay(k, len), layouts)
                 THEN OperateRecurse(k + 1, len, layouts[2])
                 ELSE <<>>)
        ELSE <<>>

NoPass ==
    [op |-> "none", event |-> "none", cursor |-> SENTINEL, calls |-> <<>>,
     status |-> "none", over |-> FALSE]

\* No geometry has been computed yet.
NoGeo == [op |-> "none"]

\* No call into the composer has ended yet.
NoOutcome ==
    [op |-> "none", end |-> "none", reentrant |-> FALSE, inner |-> "none",
     level |-> 0]

\* The menu variables while only the composer runs.
NoMenuCall ==
    [ev |-> "new", cursor |-> SENTINEL, ret |-> "none", read |-> <<>>,
     status |-> "Closed", hovered |-> <<>>, published |-> <<>>]

\* Nested::new over a single surface; no layout pass has run yet.
NestedInit ==
    /\ chainLen = 1
    /\ layout = EmptyLayout
    /\ pass = NoPass
    /\ status = "Closed"
    /\ hovered_option = <<>>
    /\ options = <<>>
    /\ bounds = Rect(0, 0, 0, 0)
    /\ published = <<>>
    /\ hover_src = "none"
    /\ last = NoMenuCall
    /\ geo = NoGeo
    /\ cell = "unused"
    /\ frames = <<>>
    /\ outcome = NoOutcome

\* Nested::layout: every surface of the current chain lays itself out.
NestedLayout ==
    /\ \E nodes \in [1..chainLen -> NodeRects], position \in Positions :
           /\ layout' = LayoutRecurse(1, chainLen, nodes)
           /\ pass' = [NoPass EXCEPT
                           !.op = "layout",
                           !.cursor = position,
                           !.calls = LayoutCalls(1, chainLen, nodes,
                                                 position)]
    /\ UNCHANGED chainLen
    /\ UNCHANGED <<menuVars, geoVars, cellVars>>

\* A surface starts or stops exposing a nested surface between two passes.
ChainChange ==
    /\ \E n \in 1..MaxDepth : n # chainLen /\ chainLen' = n
    /\ pass' = NoPass
    /\ UNCHANGED layout
    /\ UNCHANGED <<menuVars, geoVars, cellVars>>

\* Nested::on_event
NestedOnEvent ==
    /\ \E event \in Events, cursor \in Cursors,
          resp \in [1..MaxDepth -> {Captured, Ignored}] :
           LET r == OnEventRecurse(1, chainLen, layout, event, cursor, resp)
           IN  pass' = [op |-> "on_event", event |-> event,
                        cursor |-> cursor, calls |-> r.calls,
                        status |-> r.status, over |-> FALSE]
    /\ UNCHANGED <<chainLen, layout>>
    /\ UNCHANGED <<menuVars, geoVars, cellVars>>

\* Nested::draw
NestedDraw ==
    /\ \E cursor \in Cursors :
           pass' = [op |-> "draw", event |-> "none", cursor |-> cursor,
                    calls |-> DrawRecurse(1, chainLen, layout, cursor),
                    status |-> "none", over |-> FALSE]
    /\ UNCHANGED <<chainLen, layout>>
    /\ UNCHANGED <<menuVars, geoVars, cellVars>>

\* Nested::is_over
NestedIsOver ==
    /\ \E cursor \in Cursors :
           LET r == IsOverRecurse(1, chainLen, layout, cursor)
           IN  pass' = [op |-> "is_over", event |-> "none",
                        cursor |-> cursor, calls |-> r.calls,
                        status |-> "none", over |-> r.over]
    /\ UNCHANGED <<chainLen, layout>>
    /\ UNCHANGED <<menuVars, geoVars, cellVars>>

\* Nested::mouse_interaction
NestedMouseInteraction ==
    /\ \E cursor \in Cursors, inter \in [1..MaxDepth -> Interactions] :
           LET r == MouseRecurse(1, chainLen, layout, cursor, inter)
           IN  pass' = [op |-> "mouse_interaction", event |-> "none",
                        cursor |-> cursor, calls |-> r.calls,
                        status |-> r.status, over |-> FALSE]
    /\ UNCHANGED <<chainLen, layout>>
    /\ UNCHANGED <<menuVars, geoVars, cellVars>>

\* Nested::operate
NestedOperate ==
    /\ pass' = [op |-> "operate", event |-> "none", cursor |-> SENTINEL,
                calls |-> OperateRecurse(1, chainLen, layout),
                status |-> "none", over |-> FALSE]
    /\ UNCHANGED <<chainLen, layout>>
    /\ UNCHANGED <<menuVars, geoVars, cellVars>>

NestedNext ==
    \/ NestedLayout
    \/ ChainChange
    \/ NestedOnEvent
    \/ NestedDraw
    \/ NestedIsOver
    \/ NestedMouseInteraction
    \/ NestedOperate

----------------------------------------------------------------------------
(* Properties of the composer                                              *)

\* Number of levels a layout tree holds nodes for.
RECURSIVE LayoutDepth(_)
LayoutDepth(lay) ==
    IF Len(lay.children) = 0 THEN 0
    ELSE IF Len(lay.children) = 1 THEN 1
    ELSE 1 + LayoutDepth(lay.children[2])

\* The own node of level k in a layout tree (k <= LayoutDepth(lay)).
RECURSIVE LevelNode(_, _)
LevelNode(lay, k) ==
    IF k = 1 THEN lay.children[1] ELSE LevelNode(lay.children[2], k - 1)

MatchingLayout == LayoutDepth(layout) = chainLen

CallsOf(kind) == { n \in DOMAIN pass.calls : pass.calls[n].kind = kind }

Invoked(i) == \E n \in CallsOf("on_event") : pass.calls[n].level = i

InvokedAndIgnored(j) ==
    \E n \in CallsOf("on_event") :
        pass.calls[n].level = j /\ pass.calls[n].status = Ignored

\* C1: with a matching layout, on_event reaches the surfaces strictly
\* innermost-first: level i is invoked exactly when every deeper level was
\* invoked and returned Ignored, always with the dispatched event, and a
\* level that returns Captured is the last one invoked.
C1_InnermostFirst ==
    (pass.op = "on_event" /\ MatchingLayout) =>
        /\ \A i \in 1..chainLen :
               Invoked(i) <=> \A j \in (i + 1)..chainLen : InvokedAndIgnored(j)
        /\ \A m, n \in DOMAIN pass.calls :
               m < n => pass.calls[m].level > pass.calls[n].level
        /\ \A n \in DOMAIN pass.calls : pass.calls[n].event = pass.event
        /\ \A n \in DOMAIN pass.calls :
               pass.calls[n].status = Captured => n = Len(pass.calls)

\* Three levels: the innermost ignores, the middle one captures, the
\* outermost is never asked.
C1_Witness ==
    /\ pass.op = "on_event" /\ MatchingLayout /\ chainLen = 3
    /\ Len(pass.calls) = 2
    /\ pass.calls[1].level = 3 /\ pass.calls[1].status = Ignored
    /\ pass.calls[2].level = 2 /\ pass.calls[2].status = Captured

\* C2: on_event returns Captured exactly when some invoked surface returned
\* Captured, and Ignored otherwise (also for a layout without children).
C2_CapturedIff ==
    pass.op = "on_event" =>
        /\ pass.status \in {Captured, Ignored}
        /\ pass.status = Captured <=>
               \E n \in DOMAIN pass.calls : pass.calls[n].status = Captured
        /\ Len(layout.children) = 0 =>
               (pass.status = Ignored /\ pass.calls = <<>>)

\* Both outcomes of C2 in one chain: an inner capture reported by a
\* two-level dispatch.
C2_Witness ==
    /\ pass.op = "on_event" /\ MatchingLayout /\ chainLen = 2
    /\ pass.status = Captured
    /\ Len(pass.calls) = 2
    /\ pass.calls[1].status = Ignored /\ pass.calls[2].status = Captured

\* C3: an outer surface's on_event gets the sentinel cursor whenever the
\* next inner surface has the cursor over it.
C3_OuterGetsSentinel ==
    pass.op = "on_event" =>
        \A n \in DOMAIN pass.calls :
            LET i == pass.calls[n].level
            IN  (/\ i < chainLen
                 /\ i < LayoutDepth(layout)
                 /\ ElementIsOver(LevelNode(layout, i + 1), pass.cursor))
                => pass.calls[n].cursor = SENTINEL

IsOverReport(j) ==
    \E n \in CallsOf("is_over") :
        /\ pass.calls[n].level = j
        /\ pass.calls[n].cursor = pass.cursor
        /\ pass.calls[n].over

\* C4: in a chain of at most two levels the outer surface is drawn with the
\* sentinel cursor exactly when the inner surface reports the cursor over
\* it, and with the real cursor otherwise.
C4_TwoLevelDraw ==
    (pass.op = "draw" /\ chainLen <= 2) =>
        \A n \in CallsOf("draw") :
            pass.calls[n].level = 1 =>
                pass.calls[n].cursor =
                    IF IsOverReport(2) THEN SENTINEL ELSE pass.cursor

C4_Witness ==
    /\ pass.op = "draw" /\ chainLen = 2 /\ MatchingLayout
    /\ IsOverReport(2)
    /\ \E n \in CallsOf("draw") :
           pass.calls[n].level = 1 /\ pass.calls[n].cursor = SENTINEL
    /\ \E n \in CallsOf("draw") :
           pass.calls[n].level = 2 /\ pass.calls[n].cursor = pass.cursor

\* C5: at any depth, no surface is drawn with the real cursor while any
\* deeper surface of the chain reports the cursor over it.
C5_AnyDeeperLevel ==
    pass.op = "draw" =>
        \A n \in CallsOf("draw") :
            (\E j \in (pass.calls[n].level + 1)..MaxDepth : IsOverReport(j))
                => pass.calls[n].cursor # pass.cursor

\* The n-th call of a kind in the log of the last pass.
RECURSIVE NthCall(_, _, _)
NthCall(kind, n, from) ==
    IF pass.calls[from].kind = kind
    THEN (IF n = 1 THEN pass.calls[from] ELSE NthCall(kind, n - 1, from + 1))
    ELSE NthCall(kind, n, from + 1)

C15_AnchorFromPrevious ==
    pass.op = "layout" =>
        \A k \in 1..(chainLen - 1) :
            NthCall("layout", k + 1, 1).cursor =
                Point(NthCall("layout", k, 1).bounds.x,
                      NthCall("layout", k, 1).bounds.y)

\* C15 (amended): every level is laid out with the one position given to
\* Nested::layout; what level i + 1 gets from level i is level i's node,
\* handed to element.overlay before level i + 1 is laid out.
C15_SamePosition ==
    pass.op = "layout" =>
        /\ \A n \in CallsOf("layout") :
               pass.calls[n].cursor = Translation(pass.cursor)
        /\ \A n \in CallsOf("layout") :
               /\ n + 1 \in CallsOf("overlay")
               /\ pass.calls[n + 1].level = pass.calls[n].level
               /\ pass.calls[n + 1].bounds = pass.calls[n].bounds
               /\ pass.calls[n + 1].over <=> n + 2 \in CallsOf("layout")

\* Two levels, the first laid out away from the position handed in: the
\* second is still given that position.
C15_Witness ==
    /\ pass.op = "layout" /\ chainLen = 2
    /\ Point(LevelNode(layout, 1).bounds.x, LevelNode(layout, 1).bounds.y)
           # pass.cursor
    /\ NthCall("layout", 2, 1).cursor = pass.cursor

\* Levels for which both a surface and a layout node exist.
Walked == 1..(IF LayoutDepth(layout) < chainLen
              THEN LayoutDepth(layout) ELSE chainLen)

\* C12: is_over answers true exactly when the cursor is over the node of
\* some level; the levels are asked outer-first and none is asked after
\* the first that answers true.
C12_IsOverAnyLevel ==
    pass.op = "is_over" =>
        /\ pass.over <=>
               \E k \in Walked :
                   Contains(LevelNode(layout, k).bounds, pass.cursor)
        /\ \A n \in DOMAIN pass.calls :
               /\ pass.calls[n].level = n
               /\ pass.calls[n].bounds = LevelNode(layout, n).bounds
               /\ pass.calls[n].over => n = Len(pass.calls)
        /\ ~pass.over => Len(pass.calls) = Cardinality(Walked)

\* Three levels, the cursor over the second only: the third is not asked.
C12_Witness ==
    /\ pass.op = "is_over" /\ MatchingLayout /\ chainLen = 3
    /\ pass.over
    /\ Len(pass.calls) = 2
    /\ ~pass.calls[1].over /\ pass.calls[2].over

Consulted(i) ==
    \E n \in CallsOf("mouse_interaction") : pass.calls[n].level = i

ConsultedIdle(j) ==
    \E n \in CallsOf("mouse_interaction") :
        pass.calls[n].level = j /\ pass.calls[n].status = "Idle"

\* C13: with a matching layout, mouse_interaction consults level i exactly
\* when every deeper level answered Idle, innermost first, and returns the
\* answer of the last level consulted: the innermost answer that is not
\* Idle, or Idle when every level answered Idle.
C13_InnermostFeedback ==
    (pass.op = "mouse_interaction" /\ MatchingLayout) =>
        /\ \A i \in 1..chainLen :
               Consulted(i) <=> \A j \in (i + 1)..chainLen : ConsultedIdle(j)
        /\ \A m, n \in DOMAIN pass.calls :
               m < n => pass.calls[m].level > pass.calls[n].level
        /\ \A n \in DOMAIN pass.calls :
               pass.calls[n].status # "Idle" => n = Len(pass.calls)
        /\ pass.calls # <<>>
        /\ pass.status = pass.calls[Len(pass.calls)].status
        /\ pass.status = "Idle" <=>
               \A i \in 1..chainLen : ConsultedIdle(i)

\* Three levels: the innermost has no preference, the middle one answers
\* Grab, the outermost is not consulted.
C13_Witness ==
    /\ pass.op = "mouse_interaction" /\ MatchingLayout /\ chainLen = 3
    /\ pass.status = "Grab"
    /\ Len(pass.calls) = 2
    /\ pass.calls[1].level = 3 /\ pass.calls[1].status = "Idle"
    /\ pass.calls[2].level = 2 /\ pass.calls[2].status = "Grab"

\* C19: with a matching layout, operate applies the operation to every
\* level of the chain exactly once, outermost first.
C19_OperateEveryLevel ==
    (pass.op = "operate" /\ MatchingLayout) =>
        /\ Len(pass.calls) = chainLen
        /\ \A n \in DOMAIN pass.calls :
               /\ pass.calls[n].kind = "operate"
               /\ pass.calls[n].level = n
               /\ pass.calls[n].bounds = LevelNode(layout, n).bounds

C19_Witness ==
    /\ pass.op = "operate" /\ MatchingLayout /\ chainLen = 3
    /\ Len(pass.calls) = 3
    /\ pass.calls[1].level = 1 /\ pass.calls[3].level = 3

\* The passes that walk a layout handed in by the caller.
WalkOps == {"draw", "operate", "on_event", "mouse_interaction", "is_over"}

\* min(levels in the given layout, current chain length)
Levels ==
    IF LayoutDepth(layout) < chainLen THEN LayoutDepth(layout) ELSE chainLen

\* The deepest level the last pass called a surface of.
Visited ==
    IF pass.calls = <<>> THEN 0
    ELSE CHOOSE m \in 1..MaxDepth :
             /\ \E n \in DOMAIN pass.calls : pass.calls[n].level = m
             /\ \A n \in DOMAIN pass.calls : pass.calls[n].level <= m

\* C21 as stated: each of draw, operate, on_event, mouse_interaction and
\* is_over visits exactly min(levels in the layout, chain length) levels.
C21_VisitsMinLevels ==
    pass.op \in WalkOps => Visited = Levels

\* C21: no pass calls a surface past min(levels in the layout, chain
\* length); draw and operate call each of these levels exactly once,
\* on_event and mouse_interaction reach the deepest of them, and is_over
\* asks them outermost first up to the first one the cursor is over, all
\* of them when there is none.
C21_WithinBothLengths ==
    pass.op \in WalkOps =>
        /\ \A n \in DOMAIN pass.calls : pass.calls[n].level <= Levels
        /\ pass.op \in {"draw", "operate"} =>
               /\ Cardinality(CallsOf(pass.op)) = Levels
               /\ \A k \in 1..Levels :
                      \E n \in CallsOf(pass.op) : pass.calls[n].level = k
        /\ pass.op \in {"on_event", "mouse_interaction"} =>
               Visited = Levels
        /\ pass.op = "is_over" =>
               /\ ~pass.over => Visited = Levels
               /\ Visited < Levels => pass.calls[Len(pass.calls)].over

\* A layout built for three levels walked by is_over over a chain of two:
\* the third node is skipped.
C21_Witness ==
    /\ pass.op = "is_over"
    /\ LayoutDepth(layout) = 3
    /\ chainLen = 2
    /\ ~pass.over
    /\ Visited = 2

\* C22: for a layout produced by Nested::layout, draw hit-tests level i+1
\* against its own laid-out node, the rectangle Nested::is_over tests for
\* that level: level i is drawn with the sentinel cursor exactly when the
\* cursor is over that node.
C22_SameRectangle ==
    (pass.op = "draw" /\ MatchingLayout) =>
        /\ \A n \in CallsOf("draw") :
               pass.calls[n].level < chainLen =>
                   (pass.calls[n].cursor = SENTINEL
                        <=> ElementIsOver(LevelNode(layout,
                                                    pass.calls[n].level + 1),
                                          pass.cursor))
        /\ \A n \in CallsOf("is_over") :
               pass.calls[n].bounds
                   = LevelNode(layout, pass.calls[n].level).bounds

----------------------------------------------------------------------------
(* Menu state and the dropdown List                                        *)

\* Longest option slice explored.
MaxOptions == 3

\* Most messages held in the Shell before the runtime drains it.
MaxPublished == 2

\* text_size and padding.vertical() of the List.
TextSize == 1
PaddingVertical == 1

\* text_size + self.padding.vertical()
OptionHeight == TextSize + PaddingVertical

ListWidth == 1

\* Top edges the list is laid out at.
ListTops == { 0, 1 }

\* Option slices the owner hands to Menu::new.
OptionLists == { [i \in 1..n |-> 10 + i] : n \in 0..MaxOptions }

\* Cursor positions delivered with an event.
MenuCursors ==
    {SENTINEL, Point(ListWidth, 0)}
        \cup { Point(0, y) : y \in 0..(MaxOptions * OptionHeight + 1) }

MenuEvents == { "LeftPressed", "CursorMoved", "FingerPressed", "Other" }

None == <<>>
Some(v) == <<v>>

\* The application message built by the on_selected callback.
OnSelected(option) == [selected |-> option]

\* Mutant: an empty list is still given the height of one row.
ListLayout_OneRow(opts, top) ==
    Rect(0, top, ListWidth,
         OptionHeight * (IF Len(opts) = 0 THEN 1 ELSE Len(opts)))

\* List::layout: Length::Shrink height, the intrinsic height of the rows.
ListLayout(opts, top) ==
    Rect(0, top, ListWidth, OptionHeight * Len(opts))

\* (a / b) as usize on f32: truncates, saturating at zero.
DivAsUsize(a, b) == IF a < 0 THEN 0 ELSE a \div b

\* Mutant: the row is computed from the absolute y of the cursor.
HoverIndex_Absolute(cursor, b) == DivAsUsize(cursor.y, OptionHeight)

\* The hovered index computed from the cursor on a move or touch.
HoverIndex(cursor, b) == DivAsUsize(cursor.y - b.y, OptionHeight)

\* Mutant: the index is taken as counted from one.
Get_OneBased(opts, index) ==
    IF index >= 1 /\ index <= Len(opts) THEN Some(opts[index]) ELSE None

\* self.options.get(index), index counted from zero.
Get(opts, index) ==
    IF index < Len(opts) THEN Some(opts[index + 1]) ELSE None

\* Mutant: a press outside closes the menu at once.
OutsideStatus_Closed == "Closed"

\* The status a press or touch outside the bounds leaves.
OutsideStatus == "Closing"

\* What one on_event call leaves behind.
Outcome(st, hov, pub, src, ret, read) ==
    [status |-> st, hovered |-> hov, published |-> pub, src |-> src,
     ret |-> ret, read |-> read]

\* Mutant: an index past the last option is clamped to the last option.
Select_Clamped(hov, st, pub, src) ==
    IF hov # None /\ Len(options) > 0
    THEN LET index == IF hov[1] < Len(options) THEN hov[1]
                      ELSE Len(options) - 1
         IN  Outcome("Closed", hov,
                     Append(pub, OnSelected(options[index + 1])), src,
                     Captured, Some(index))
    ELSE Outcome(st, hov, pub, src, Ignored, None)

\* if let Some(index) = *self.hovered_option { if let Some(option) = ... }
Select(hov, st, pub, src) ==
    IF hov # None /\ Get(options, hov[1]) # None
    THEN Outcome("Closed", hov,
                 Append(pub, OnSelected(Get(options, hov[1])[1])), src,
                 Captured, hov)
    ELSE Outcome(st, hov, pub, src, Ignored, None)

\* Mutant: a pointer move outside the bounds is handled like a press
\* outside.
ListOnEvent_MoveCloses(event, cursor) ==
    CASE event = "LeftPressed" ->
             IF Contains(bounds, cursor)
             THEN Select(hovered_option, status, published, hover_src)
             ELSE Outcome(OutsideStatus, hovered_option, published,
                          hover_src, Ignored, None)
      [] event = "CursorMoved" ->
             IF Contains(bounds, cursor)
             THEN Outcome(status, Some(HoverIndex(cursor, bounds)),
                          published, event, Ignored, None)
             ELSE Outcome(OutsideStatus, hovered_option, published,
                          hover_src, Ignored, None)
      [] event = "FingerPressed" ->
             IF Contains(bounds, cursor)
             THEN Select(Some(HoverIndex(cursor, bounds)), status,
                         published, event)
             ELSE Outcome(OutsideStatus, hovered_option, published,
                          hover_src, Ignored, None)
      [] OTHER ->
             Outcome(status, hovered_option, published, hover_src, Ignored,
                     None)

\* List::on_event
ListOnEvent(event, cursor) ==
    CASE event = "LeftPressed" ->
             IF Contains(bounds, cursor)
             THEN Select(hovered_option, status, published, hover_src)
             ELSE Outcome(OutsideStatus, hovered_option, published,
                          hover_src, Ignored, None)
      [] event = "CursorMoved" ->
             IF Contains(bounds, cursor)
             THEN Outcome(status, Some(HoverIndex(cursor, bounds)),
                          published, event, Ignored, None)
             ELSE Outcome(status, hovered_option, published, hover_src,
                          Ignored, None)
      [] event = "FingerPressed" ->
             IF Contains(bounds, cursor)
             THEN Select(Some(HoverIndex(cursor, bounds)), status,
                         published, event)
             ELSE Outcome(OutsideStatus, hovered_option, published,
                          hover_src, Ignored, None)
      [] OTHER ->
             Outcome(status, hovered_option, published, hover_src, Ignored,
                     None)

\* Lengths are counted in steps of 1 / Scale of a pixel, so that a row
\* height need not be a whole number of pixels.
Scale == 2

\* Row heights (text_size + padding.vertical()) a List is drawn with, none
\* below one pixel.
RowHeights == { Scale, Scale + 1 }

Min(a, b) == IF a < b THEN a ELSE b

\* (text_size + self.padding.vertical()) as usize: whole pixels only.
OptionHeightAsUsize(rh) == Scale * (rh \div Scale)

\* (a / b).ceil() as usize on f32, saturating at zero.
CeilDivAsUsize(a, b) == IF a <= 0 THEN 0 ELSE (a + b - 1) \div b

\* List::draw: the slice options[start..end.min(len)] and the rows drawn;
\* the slice panics when start is past its end.
VisibleRange(n, rh, offset, vh) ==
    LET option_height == OptionHeightAsUsize(rh)
        start == DivAsUsize(offset, option_height)
        end == CeilDivAsUsize(offset + vh, option_height)
        stop == Min(end, n)
    IN  [start |-> start, stop |-> stop, panic |-> start > stop,
         rows |-> IF start > stop THEN <<>>
                  ELSE [i \in 1..(stop - start) |-> start + i - 1]]

\* The height the container resolves within the limits it is given.
ContainerHeight(content, max) == Min(content, max)

\* Mutant: the comparison is turned around.
PlaceBelow_Swapped(space_below, space_above) == space_below < space_above

\* if space_below > space_above
PlaceBelow(space_below, space_above) == space_below > space_above

\* Overlay::layout of the menu: the node of the list, moved below or above
\* the target.
OverlayLayout(container_height, position, target_height, content) ==
    LET space_below == container_height - (position.y + target_height)
        space_above == position.y
        max == IF PlaceBelow(space_below, space_above)
               THEN space_below ELSE space_above
        height == ContainerHeight(content, max)
    IN  IF PlaceBelow(space_below, space_above)
        THEN Rect(position.x, position.y + target_height, ListWidth, height)
        ELSE Rect(position.x, position.y - height, ListWidth, height)

\* The state before a step, as remembered in `last`.
Before(ev, cursor, ret, read) ==
    [ev |-> ev, cursor |-> cursor, ret |-> ret, read |-> read,
     status |-> status, hovered |-> hovered_option,
     published |-> published]

\* State::default() and a freshly built Menu.
MenuInit ==
    /\ status = "Closed"
    /\ hovered_option = None
    /\ options \in OptionLists
    /\ \E top \in ListTops : bounds = ListLayout(options, top)
    /\ published = <<>>
    /\ hover_src = "none"
    /\ last = NoMenuCall
    /\ geo = NoGeo
    /\ cell = "unused"
    /\ frames = <<>>
    /\ outcome = NoOutcome
    /\ chainLen = 1
    /\ layout = EmptyLayout
    /\ pass = NoPass

\* State::open
Open ==
    /\ status' = "Open"
    /\ last' = Before("open", SENTINEL, "none", None)
    /\ UNCHANGED <<hovered_option, options, bounds, published, hover_src>>
    /\ UNCHANGED <<nestedVars, geoVars, cellVars>>

\* State::close
Close ==
    /\ status' = "Closed"
    /\ last' = Before("close", SENTINEL, "none", None)
    /\ UNCHANGED <<hovered_option, options, bounds, published, hover_src>>
    /\ UNCHANGED <<nestedVars, geoVars, cellVars>>

\* The owner builds the Menu over another option slice and it is laid out
\* again.
Rebuild ==
    /\ \E opts \in OptionLists, top \in ListTops :
           /\ opts # options \/ top # bounds.y
           /\ options' = opts
           /\ bounds' = ListLayout(opts, top)
    /\ last' = Before("rebuild", SENTINEL, "none", None)
    /\ UNCHANGED <<status, hovered_option, published, hover_src>>
    /\ UNCHANGED <<nestedVars, geoVars, cellVars>>

\* The runtime takes the published messages out of the Shell.
DrainShell ==
    /\ published # <<>>
    /\ published' = <<>>
    /\ last' = Before("drain", SENTINEL, "none", None)
    /\ UNCHANGED <<status, hovered_option, options, bounds, hover_src>>
    /\ UNCHANGED <<nestedVars, geoVars, cellVars>>

\* One event delivered to List::on_event.
OnEvent ==
    /\ Len(published) < MaxPublished
    /\ \E event \in MenuEvents, cursor \in MenuCursors :
           LET o == ListOnEvent(event, cursor)
           IN  /\ status' = o.status
               /\ hovered_option' = o.hovered
               /\ published' = o.published
               /\ hover_src' = o.src
               /\ last' = Before(event, cursor, o.ret, o.read)
    /\ UNCHANGED <<options, bounds>>
    /\ UNCHANGED <<nestedVars, geoVars, cellVars>>

\* List::draw with a viewport of the scroll region inside the list; the
\* rows drawn are remembered as the options read.
Draw ==
    /\ \E offset \in 0..bounds.height :
           \E vh \in 0..(bounds.height - offset) :
               LET v == VisibleRange(Len(options), OptionHeight, offset, vh)
               IN  last' = Before("draw", SENTINEL,
                                  IF v.panic THEN "panic" ELSE "none",
                                  v.rows)
    /\ UNCHANGED <<status, hovered_option, options, bounds, published,
                   hover_src>>
    /\ UNCHANGED <<nestedVars, geoVars, cellVars>>

MenuNext ==
    \/ Open
    \/ Close
    \/ Rebuild
    \/ DrainShell
    \/ OnEvent
    \/ Draw

----------------------------------------------------------------------------
(* Placement of the menu and the rows drawn, over their inputs             *)

\* Heights of the container the overlay is laid out in.
MaxContainer == 6

\* Footprints of the target the menu is anchored to.
MaxTarget == 2

GeoInit ==
    /\ geo = NoGeo
    /\ chainLen = 1
    /\ layout = EmptyLayout
    /\ pass = NoPass
    /\ status = "Closed"
    /\ hovered_option = <<>>
    /\ options = <<>>
    /\ bounds = Rect(0, 0, 0, 0)
    /\ published = <<>>
    /\ hover_src = "none"
    /\ last = NoMenuCall
    /\ cell = "unused"
    /\ frames = <<>>
    /\ outcome = NoOutcome

\* Overlay::layout of the menu for one container, position and target.
MenuOverlayLayout ==
    /\ \E container_height \in 0..MaxContainer,
          y \in 0..MaxContainer,
          target_height \in 0..MaxTarget,
          n \in 0..MaxOptions :
           geo' = [op |-> "layout",
                   container_height |-> container_height,
                   position |-> Point(0, y),
                   target_height |-> target_height,
                   node |-> OverlayLayout(container_height, Point(0, y),
                                          target_height, OptionHeight * n)]
    /\ UNCHANGED <<nestedVars, menuVars, cellVars>>

\* List::draw for one option count, row height and viewport of the scroll
\* region inside the list (whose height is n rows, List::layout).
ListDraw ==
    /\ \E n \in 0..MaxOptions, rh \in RowHeights :
           \E offset \in 0..(rh * n) :
               \E vh \in 0..(rh * n - offset) :
                   geo' = [op |-> "draw", n |-> n, rh |-> rh,
                           offset |-> offset, vh |-> vh,
                           range |-> VisibleRange(n, rh, offset, vh)]
    /\ UNCHANGED <<nestedVars, menuVars, cellVars>>

GeoNext ==
    \/ MenuOverlayLayout
    \/ ListDraw

----------------------------------------------------------------------------
(* The exclusive access to the root surface held in the RefCell            *)

\* Passes that may be in progress on one Nested at once before the model
\* stops following further re-entrant calls.
MaxFrames == 2

\* The methods taking &self, which go through with_element_mut.
SharedOps == {"layout", "draw", "mouse_interaction", "is_over"}

\* The methods taking &mut self, which go through RefCell::get_mut.
ExclusiveOps == {"operate", "on_event"}

\* Mutant: the cell hands out the exclusive access without looking.
BorrowMut_Unchecked(c) == "writing"

\* self.0.borrow_mut(): the exclusive access, or a panic when it is
\* already handed out.
BorrowMut(c) == IF c = "unused" THEN "writing" ELSE "panic"

Frame(op, level) == [op |-> op, level |-> level]

Top == frames[Len(frames)]

BorrowInit ==
    /\ chainLen \in 1..MaxDepth
    /\ cell = "unused"
    /\ frames = <<>>
    /\ outcome = NoOutcome
    /\ layout = EmptyLayout
    /\ pass = NoPass
    /\ status = "Closed"
    /\ hovered_option = <<>>
    /\ options = <<>>
    /\ bounds = Rect(0, 0, 0, 0)
    /\ published = <<>>
    /\ hover_src = "none"
    /\ last = NoMenuCall
    /\ geo = NoGeo

\* A pass starts from outside: with_element_mut takes the exclusive access
\* and recurse is entered at the root surface.
Enter ==
    /\ frames = <<>>
    /\ \E op \in SharedOps :
           IF BorrowMut(cell) = "panic"
           THEN /\ outcome' = [NoOutcome EXCEPT !.op = op, !.end = "aborted"]
                /\ UNCHANGED <<cell, frames>>
           ELSE /\ cell' = BorrowMut(cell)
                /\ frames' = <<Frame(op, 1)>>
                /\ outcome' = [NoOutcome EXCEPT !.op = op]
    /\ UNCHANGED <<nestedVars, menuVars, geoVars>>

\* recurse goes on to the nested surface of the level it is at.
Descend ==
    /\ frames # <<>>
    /\ HasOverlay(Top.level, chainLen)
    /\ frames' = [frames EXCEPT ![Len(frames)].level = @ + 1]
    /\ UNCHANGED <<cell, outcome>>
    /\ UNCHANGED <<nestedVars, menuVars, geoVars>>

\* A surface called by the pass calls a &self method of the same Nested.
\* The panic unwinds every pass in progress and drops their accesses.
Reenter ==
    /\ frames # <<>>
    /\ Len(frames) < MaxFrames
    /\ \E op \in SharedOps :
           IF BorrowMut(cell) = "panic"
           THEN /\ cell' = "unused"
                /\ frames' = <<>>
                /\ outcome' = [op |-> frames[1].op, end |-> "aborted",
                                reentrant |-> TRUE, inner |-> op,
                                level |-> Top.level]
           ELSE /\ cell' = BorrowMut(cell)
                /\ frames' = Append(frames, Frame(op, 1))
                /\ outcome' = [op |-> frames[1].op, end |-> "none",
                                reentrant |-> TRUE, inner |-> op,
                                level |-> Top.level]
    /\ UNCHANGED <<nestedVars, menuVars, geoVars>>

\* The closure returns, at the last level or, for is_over, at the first
\* level found; the RefMut is dropped with the statement.
Return ==
    /\ frames # <<>>
    /\ \/ ~HasOverlay(Top.level, chainLen)
       \/ Top.op = "is_over"
    /\ frames' = SubSeq(frames, 1, Len(frames) - 1)
    /\ cell' = IF Len(frames) = 1 THEN "unused" ELSE cell
    /\ outcome' = IF Len(frames) = 1
                   THEN [NoOutcome EXCEPT !.op = Top.op, !.end = "returned",
                                          !.level = Top.level]
                   ELSE outcome
    /\ UNCHANGED <<nestedVars, menuVars, geoVars>>

\* operate and on_event hold &mut self, so no pass is in progress; get_mut
\* reaches the surface without the cell's flag.
GetMut ==
    /\ frames = <<>>
    /\ \E op \in ExclusiveOps :
           outcome' = [NoOutcome EXCEPT !.op = op, !.end = "returned",
                                        !.level = chainLen]
    /\ UNCHANGED <<cell, frames>>
    /\ UNCHANGED <<nestedVars, menuVars, geoVars>>

BorrowNext ==
    \/ Enter
    \/ Descend
    \/ Reenter
    \/ Return
    \/ GetMut

----------------------------------------------------------------------------
(* Properties of the menu                                                  *)

IsPress == last.ev \in {"LeftPressed", "FingerPressed"}

Inside == Contains(bounds, last.cursor)

ValidHover(hov) == hov # None /\ hov[1] < Len(options)

\* C6: a left press inside the bounds with hovered = Some(i), i < N,
\* publishes exactly on_selected(options[i]), closes the menu and is
\* captured.
C6_PressSelects ==
    (last.ev = "LeftPressed" /\ Inside /\ ValidHover(last.hovered)) =>
        /\ published =
               Append(last.published,
                      OnSelected(options[last.hovered[1] + 1]))
        /\ status = "Closed"
        /\ last.ret = Captured

\* A pointer move hovered the second row of an open menu and the press
\* selected it.
C6_Witness ==
    /\ last.ev = "LeftPressed" /\ Inside
    /\ hover_src = "CursorMoved"
    /\ last.hovered = Some(1)
    /\ last.status = "Open"
    /\ last.ret = Captured
    /\ published = <<OnSelected(options[2])>>

\* C7: a left press or touch outside the bounds of an open menu leaves it
\* Closing, publishes nothing and is ignored.
C7_PressOutsideCloses ==
    (IsPress /\ ~Inside /\ last.status = "Open") =>
        /\ status = "Closing"
        /\ published = last.published
        /\ last.ret = Ignored

C7_Witness ==
    /\ last.ev = "FingerPressed" /\ ~Inside
    /\ last.cursor # SENTINEL
    /\ options # <<>>
    /\ last.status = "Open"
    /\ status = "Closing"

\* C8: the status only changes Closed -> Open by open(), Open -> Closing
\* by a press outside, Open/Closing -> Closed by a selecting press or by
\* close(); no input event moves it out of Closed.
C8_Transitions ==
    status # last.status =>
        \/ /\ last.status = "Closed" /\ status = "Open"
           /\ last.ev = "open"
        \/ /\ last.status = "Open" /\ status = "Closing"
           /\ IsPress /\ ~Inside
        \/ /\ last.status \in {"Open", "Closing"} /\ status = "Closed"
           /\ \/ last.ev = "close"
              \/ IsPress /\ last.ret = Captured

\* C9: a left press inside the bounds without a valid hovered index
\* publishes nothing, keeps the status, is ignored, and no option outside
\* the slice is ever read.
C9_NoValidHover ==
    /\ (last.ev = "LeftPressed" /\ Inside /\ ~ValidHover(last.hovered)) =>
           /\ published = last.published
           /\ status = last.status
           /\ hovered_option = last.hovered
           /\ last.ret = Ignored
           /\ last.read = None
    /\ last.read # None => last.read[1] < Len(options)

\* The hovered index was left past the end of a shorter option slice.
C9_Witness ==
    /\ last.ev = "LeftPressed" /\ Inside
    /\ last.hovered # None /\ last.hovered[1] >= Len(options)
    /\ last.status = "Open"
    /\ last.ret = Ignored

\* C10: after a pointer move the hovered option is the row under the
\* pointer, and None when the pointer is over no option.
C10_HoverTracksPointer ==
    last.ev = "CursorMoved" =>
        hovered_option =
            IF Inside /\ HoverIndex(last.cursor, bounds) < Len(options)
            THEN Some(HoverIndex(last.cursor, bounds))
            ELSE None

\* floor((y - bounds.y) / row_height) of the position of the last event.
RowUnder == (last.cursor.y - bounds.y) \div OptionHeight

\* C11: a touch inside the bounds first sets the hovered index to the row
\* under the touch and then selects in the same step: for a row i < N it
\* publishes on_selected(options[i]), closes the menu and is captured,
\* whatever index was hovered before.
C11_TouchSelects ==
    (last.ev = "FingerPressed" /\ Inside) =>
        /\ hovered_option = Some(RowUnder)
        /\ hover_src = "FingerPressed"
        /\ RowUnder < Len(options) =>
               /\ published =
                      Append(last.published,
                             OnSelected(options[RowUnder + 1]))
               /\ status = "Closed"
               /\ last.ret = Captured
               /\ last.read = Some(RowUnder)

\* A touch on the first row while the third row was hovered and the list
\* was not laid out at y = 0.
C11_Witness ==
    /\ last.ev = "FingerPressed" /\ Inside
    /\ bounds.y > 0
    /\ last.hovered = Some(2)
    /\ RowUnder = 0
    /\ last.status = "Open"
    /\ last.ret = Captured
    /\ published = <<OnSelected(options[1])>>

\* C23: whatever pointer moves, changes of the bounds and presses came
\* before, the option a left press inside the bounds publishes is the one
\* whose row contains the press position, row floor((press.y - bounds.y) /
\* row height) at the time of the press.
C23_PressPublishesRowUnder ==
    (last.ev = "LeftPressed" /\ Inside /\ published # last.published) =>
        /\ RowUnder < Len(options)
        /\ published =
               Append(last.published, OnSelected(options[RowUnder + 1]))

\* C24: a pointer move changes at most the hovered option: the status and
\* the published messages stay and Ignored is returned; a move outside the
\* bounds, and any event other than left press, pointer move and touch,
\* also leaves the hovered option as it was.
C24_MoveChangesHoverOnly ==
    /\ last.ev = "CursorMoved" =>
           /\ status = last.status
           /\ published = last.published
           /\ last.ret = Ignored
    /\ ((last.ev = "CursorMoved" /\ ~Inside) \/ last.ev = "Other") =>
           /\ hovered_option = last.hovered
           /\ status = last.status
           /\ published = last.published
           /\ last.ret = Ignored

\* A move inside an open menu from the first row to the second: only the
\* hovered option changed.
C24_Witness ==
    /\ last.ev = "CursorMoved" /\ Inside
    /\ last.status = "Open"
    /\ last.hovered = Some(0)
    /\ hovered_option = Some(1)
    /\ status = "Open"
    /\ last.ret = Ignored

\* C16: with space_below = container height - (position.y + target
\* height) and space_above = position.y, the list's top edge is position.y
\* + target height when space_below > space_above, and otherwise (a tie
\* included, always the same side) its bottom edge is position.y.
C16_Placement ==
    geo.op = "layout" =>
        LET space_below == geo.container_height
                               - (geo.position.y + geo.target_height)
            space_above == geo.position.y
        IN  /\ space_below > space_above =>
                   geo.node.y = geo.position.y + geo.target_height
            /\ space_below <= space_above =>
                   geo.node.y + geo.node.height = geo.position.y

\* The tie: as much room below as above, and a list with rows.
C16_Witness ==
    /\ geo.op = "layout"
    /\ geo.container_height - (geo.position.y + geo.target_height)
           = geo.position.y
    /\ geo.position.y > 0
    /\ geo.node.height > 0
    /\ geo.node.y + geo.node.height = geo.position.y

\* The rectangle row i is drawn in meets the viewport.
RowInViewport(i) ==
    LET top == OptionHeightAsUsize(geo.rh) * i
    IN  /\ geo.vh > 0
        /\ top < geo.offset + geo.vh
        /\ geo.offset < top + geo.rh

\* C17: for every viewport the rows [start, end) drawn include every row
\* whose rectangle meets the viewport, none is at or past N, and the slice
\* options[start..end] is in range (start <= end <= N).
C17_VisibleRange ==
    geo.op = "draw" =>
        /\ ~geo.range.panic
        /\ geo.range.start <= geo.range.stop
        /\ geo.range.stop <= geo.n
        /\ \A i \in 0..(geo.n - 1) :
               RowInViewport(i) =>
                   (geo.range.start <= i /\ i < geo.range.stop)

\* C18: with no options the list has no height, draw renders no row, and
\* every left press or touch, wherever it is, is outside: the status
\* becomes Closing, nothing is published and the event is ignored.
C18_EmptyOptions ==
    options = <<>> =>
        /\ bounds.height = 0
        /\ last.ev = "draw" => (last.read = <<>> /\ last.ret = "none")
        /\ IsPress =>
               /\ ~Inside
               /\ status = "Closing"
               /\ published = last.published
               /\ last.ret = Ignored

\* A press at the top left corner of the empty list of an open menu.
C18_Witness ==
    /\ options = <<>>
    /\ last.ev = "LeftPressed"
    /\ last.cursor = Point(bounds.x, bounds.y)
    /\ last.status = "Open"
    /\ status = "Closing"

\* C20: at most one exclusive access to the root surface is active at any
\* instant; layout, draw, mouse_interaction and is_over take it once on
\* entry and give it back before returning, so a pass without a re-entrant
\* call never aborts; a re-entrant call on the same Nested aborts instead
\* of running with a second exclusive access.
C20_OneExclusiveAccess ==
    /\ Len(frames) <= 1
    /\ (cell = "writing") <=> (frames # <<>>)
    /\ frames # <<>> => (frames[1].op \in SharedOps /\ outcome.end = "none")
    /\ outcome.end = "aborted" => outcome.reentrant
    /\ outcome.reentrant => outcome.end = "aborted"

\* A pass that had reached the second level was re-entered and aborted.
C20_Witness ==
    /\ outcome.end = "aborted"
    /\ outcome.reentrant
    /\ outcome.level = 2
    /\ cell = "unused"
    /\ frames = <<>>

----------------------------------------------------------------------------
(* Specifications                                                          *)

SpecNested == NestedInit /\ [][NestedNext]_vars

SpecMenu == MenuInit /\ [][MenuNext]_vars

SpecGeometry == GeoInit /\ [][GeoNext]_vars

SpecBorrow == BorrowInit /\ [][BorrowNext]_vars

====
